---- MODULE Spec2Model ----
(***************************************************************************)
(* Model of act_2_render_juanaguirre.py: a module-level script that reads  *)
(* a statistics CSV and a department shapefile, normalizes the department  *)
(* names of both, left-joins them, derives two columns and builds four     *)
(* choropleth figures, a marker map and the Dash layout.                   *)
(*                                                                         *)
(* Representation.  A text is a sequence of characters, a character is a   *)
(* one-token string.  A nullable cell is NaN (the empty tuple) or <<v>>.   *)
(* A rational is [num, den].  np.log(x) for x > 0 is the term              *)
(* [kind |-> "ln", arg |-> x].                                             *)
(***************************************************************************)
EXTENDS Integers, Sequences, FiniteSets, TLC

VARIABLES pc, csvFile, shpFile, cacheFile, io, namespace, error,
          df, gdf, merged_programas, threshold, figs, mapa_marcadores_img, app

vars == <<pc, csvFile, shpFile, cacheFile, io, namespace, error,
          df, gdf, merged_programas, threshold, figs, mapa_marcadores_img, app>>

(* ------------------------------ bounds --------------------------------- *)
MaxLen == 2
MaxStats == 2
MaxGeo == 2
MaxCounts == 4

(* --------------------------- cells and texts --------------------------- *)
NaN == <<>>
notnull(x) == x # NaN

\* characters a label of an input file may hold: plain and accented a in both
\* cases, the blank, the feminine ordinal indicator (U+00AA) and the CJK
\* ideograph U+5317; "B", "E", "N", "e", "i", "n" arise only in derived texts
Alphabet == {"a", "A", "a_acute", "A_acute", " ", "ord_a", "cjk_bei"}

\* str(x) of .astype(str): a missing CSV cell is the float nan, whose text is "nan"
AsTypeStr(cell) == IF cell = NaN THEN <<"n", "a", "n">> ELSE cell[1]

\* str.upper, character by character
UpperChar(c) ==
  CASE c = "a" -> "A"
    [] c = "n" -> "N"
    [] c = "e" -> "E"
    [] c = "i" -> "I"
    [] c = "a_acute" -> "A_acute"
    [] OTHER -> c

SwapCaseChar(c) ==
  CASE c = "a" -> "A"
    [] c = "A" -> "a"
    [] c = "n" -> "N"
    [] c = "N" -> "n"
    [] c = "a_acute" -> "A_acute"
    [] c = "A_acute" -> "a_acute"
    [] OTHER -> c

StrUpper_swapcase(s) == [i \in 1..Len(s) |-> SwapCaseChar(s[i])]

StrUpper(s) == [i \in 1..Len(s) |-> UpperChar(s[i])]

IsSpace(c) == c = " "

RECURSIVE LStrip(_)
LStrip(s) == IF s # <<>> /\ IsSpace(Head(s)) THEN LStrip(Tail(s)) ELSE s

RECURSIVE RStrip(_)
RStrip(s) ==
  IF s # <<>> /\ IsSpace(s[Len(s)]) THEN RStrip(SubSeq(s, 1, Len(s) - 1)) ELSE s

\* str.strip
StrStrip(s) == RStrip(LStrip(s))

\* unidecode's transliteration of one character
UnidecodeChar(c) ==
  CASE c = "a_acute" -> <<"a">>
    [] c = "A_acute" -> <<"A">>
    [] c = "ord_a" -> <<"a">>
    [] c = "cjk_bei" -> <<"B", "e", "i", " ">>
    [] OTHER -> <<c>>

RECURSIVE Unidecode(_)
Unidecode(s) ==
  IF s = <<>> THEN <<>> ELSE UnidecodeChar(Head(s)) \o Unidecode(Tail(s))

\* lines 23-29: the key of a statistics row
NormalizeDepartamento(cell) == Unidecode(StrStrip(StrUpper(AsTypeStr(cell))))

NormalizeDptoCnmbr_nostrip(cell) == Unidecode(StrUpper(AsTypeStr(cell)))

\* lines 31-37: the key of a geometry record
NormalizeDptoCnmbr(cell) == Unidecode(StrStrip(StrUpper(AsTypeStr(cell))))

(* -------------------------------- join --------------------------------- *)
BaseColumns == {"DPTO_CNMBR", "geometry", "DEPARTAMENTO_DE_OFERTA_DEL_PROGRAMA",
                "CANTIDAD_PROGRAMAS", "PROMEDIO_MATRICULADOS"}

Matches(g, d) ==
  LET Test(r) == r.DEPARTAMENTO_DE_OFERTA_DEL_PROGRAMA = g.DPTO_CNMBR
  IN  SelectSeq(d, Test)

JoinedRow(g, r) ==
  [DPTO_CNMBR |-> g.DPTO_CNMBR, geometry |-> g.geometry,
   DEPARTAMENTO_DE_OFERTA_DEL_PROGRAMA |-> <<r.DEPARTAMENTO_DE_OFERTA_DEL_PROGRAMA>>,
   CANTIDAD_PROGRAMAS |-> r.CANTIDAD_PROGRAMAS,
   PROMEDIO_MATRICULADOS |-> r.PROMEDIO_MATRICULADOS]

LeftOnlyRow(g) ==
  [DPTO_CNMBR |-> g.DPTO_CNMBR, geometry |-> g.geometry,
   DEPARTAMENTO_DE_OFERTA_DEL_PROGRAMA |-> NaN,
   CANTIDAD_PROGRAMAS |-> NaN, PROMEDIO_MATRICULADOS |-> NaN]

RightOnlyRow(r) ==
  [DPTO_CNMBR |-> NaN, geometry |-> NaN,
   DEPARTAMENTO_DE_OFERTA_DEL_PROGRAMA |-> <<r.DEPARTAMENTO_DE_OFERTA_DEL_PROGRAMA>>,
   CANTIDAD_PROGRAMAS |-> r.CANTIDAD_PROGRAMAS,
   PROMEDIO_MATRICULADOS |-> r.PROMEDIO_MATRICULADOS]

RECURSIVE MergeRows(_, _, _)
\* the rows of left.merge(right, how='left'): left order, one row per match,
\* one null-filled row for a left record without a match
MergeRows(g, d, keepUnmatched) ==
  IF g = <<>> THEN <<>>
  ELSE LET m == Matches(Head(g), d)
           here == IF m = <<>>
                   THEN (IF keepUnmatched THEN <<LeftOnlyRow(Head(g))>> ELSE <<>>)
                   ELSE [i \in 1..Len(m) |-> JoinedRow(Head(g), m[i])]
       IN  here \o MergeRows(Tail(g), d, keepUnmatched)

Merge_inner(g, d) == [columns |-> BaseColumns, rows |-> MergeRows(g, d, FALSE)]

Merge_outer(g, d) ==
  LET Unmatched(r) == \A i \in 1..Len(g) :
                         g[i].DPTO_CNMBR # r.DEPARTAMENTO_DE_OFERTA_DEL_PROGRAMA
      extra == SelectSeq(d, Unmatched)
  IN  [columns |-> BaseColumns,
       rows |-> MergeRows(g, d, TRUE) \o [i \in 1..Len(extra) |-> RightOnlyRow(extra[i])]]

\* lines 40-45: gdf.merge(df, left_on=..., right_on=..., how='left')
Merge(g, d) == [columns |-> BaseColumns, rows |-> MergeRows(g, d, TRUE)]

(* --------------------------- derived columns --------------------------- *)
Column(data, c) == [i \in 1..Len(data.rows) |-> data.rows[i][c]]

WithColumn(data, c, values) ==
  [columns |-> data.columns \cup {c},
   rows |-> [i \in 1..Len(data.rows) |->
               [k \in DOMAIN data.rows[i] \cup {c} |->
                  IF k = c THEN values[i] ELSE data.rows[i][k]]]]

\* np.log: ln for a positive argument, -inf for zero, nan for a negative one
NpLog(x) ==
  IF x > 0 THEN <<[kind |-> "ln", arg |-> x]>>
  ELSE IF x = 0 THEN <<[kind |-> "-inf", arg |-> 0]>>
  ELSE NaN

LogLambda_noguard(x) == IF notnull(x) /\ x[1] >= 0 THEN NpLog(x[1]) ELSE NaN

\* lines 84-86: lambda x: np.log(x) if pd.notnull(x) and x > 0 else None
LogLambda(x) == IF notnull(x) /\ x[1] > 0 THEN NpLog(x[1]) ELSE NaN

RECURSIVE Insert(_, _)
Insert(x, s) ==
  IF s = <<>> THEN <<x>>
  ELSE IF x <= Head(s) THEN <<x>> \o s
  ELSE <<Head(s)>> \o Insert(x, Tail(s))

RECURSIVE SortValues(_)
\* the non-null values of a column in ascending order
SortValues(col) ==
  IF col = <<>> THEN <<>>
  ELSE IF notnull(Head(col)) THEN Insert(Head(col)[1], SortValues(Tail(col)))
  ELSE SortValues(Tail(col))

Quantile75_lower(col) ==
  LET v == SortValues(col)
      n == Len(v)
  IN  IF n = 0 THEN NaN
      ELSE <<[num |-> 4 * v[((3 * (n - 1)) \div 4) + 1], den |-> 4]>>

\* line 150: Series.quantile(0.75): nulls skipped, linear interpolation between
\* the order statistics around position 0.75 * (n - 1); nan for no values
Quantile75(col) ==
  LET v == SortValues(col)
      n == Len(v)
      lo == (3 * (n - 1)) \div 4
      fr == (3 * (n - 1)) % 4
      hi == IF lo + 1 < n THEN lo + 1 ELSE lo
  IN  IF n = 0 THEN NaN
      ELSE <<[num |-> 4 * v[lo + 1] + fr * (v[hi + 1] - v[lo + 1]), den |-> 4]>>

SeriesGt_ge(x, t) == notnull(x) /\ notnull(t) /\ x[1] * t[1].den >= t[1].num

\* line 151: elementwise >, False when either side is nan
SeriesGt(x, t) == notnull(x) /\ notnull(t) /\ x[1] * t[1].den > t[1].num

(* ------------------------------ figures -------------------------------- *)
\* px.choropleth(merged_programas, locations=index, color=..., hover_name=...)
Choropleth(data, color) ==
  [color |-> color,
   locations |-> [i \in 1..Len(data.rows) |-> i],
   geojson |-> Column(data, "geometry"),
   z |-> Column(data, color),
   hover_name |-> Column(data, "DPTO_CNMBR")]

NoFigs == [f \in {"fig1", "fig2", "fig3", "fig4"} |-> <<>>]

Built(f) == figs[f] # <<>>

\* Series.max(): the largest non-null value, nan when there is none
SeqMax(col) ==
  LET v == SortValues(col) IN IF v = <<>> THEN NaN ELSE <<v[Len(v)]>>

(* ------------------------------- steps --------------------------------- *)
Abort(e) ==
  /\ pc' = "aborted"
  /\ error' = e

\* line 19: df = pd.read_csv(csv_path, encoding="utf-8")
ReadCsv ==
  /\ pc = "read_csv"
  /\ io' = Append(io, "read csv")
  /\ IF csvFile.exists
     THEN /\ df' = csvFile.rows
          /\ namespace' = namespace \cup {"df"}
          /\ pc' = "read_shp"
          /\ UNCHANGED error
     ELSE /\ Abort("FileNotFoundError")
          /\ UNCHANGED <<df, namespace>>
  /\ UNCHANGED <<csvFile, shpFile, cacheFile, gdf, merged_programas, threshold,
                 figs, mapa_marcadores_img, app>>

ReadShp_fallback ==
  /\ pc = "read_shp"
  /\ io' = Append(io, "read shp")
  /\ gdf' = IF shpFile.exists THEN shpFile.rows ELSE <<>>
  /\ namespace' = namespace \cup {"gdf"}
  /\ pc' = "norm_df"
  /\ UNCHANGED <<csvFile, shpFile, cacheFile, df, merged_programas, threshold,
                 figs, mapa_marcadores_img, app, error>>

\* line 20: gdf = gpd.read_file(shp_path)
ReadShp ==
  /\ pc = "read_shp"
  /\ io' = Append(io, "read shp")
  /\ IF shpFile.exists
     THEN /\ gdf' = shpFile.rows
          /\ namespace' = namespace \cup {"gdf"}
          /\ pc' = "norm_df"
          /\ UNCHANGED error
     ELSE /\ Abort("DataSourceError")
          /\ UNCHANGED <<gdf, namespace>>
  /\ UNCHANGED <<csvFile, shpFile, cacheFile, df, merged_programas, threshold,
                 figs, mapa_marcadores_img, app>>

\* lines 23-29
NormalizeDf ==
  /\ pc = "norm_df"
  /\ df' = [i \in 1..Len(df) |->
              [df[i] EXCEPT !.DEPARTAMENTO_DE_OFERTA_DEL_PROGRAMA =
                 NormalizeDepartamento(@)]]
  /\ pc' = "norm_gdf"
  /\ UNCHANGED <<csvFile, shpFile, cacheFile, io, namespace, error, gdf,
                 merged_programas, threshold, figs, mapa_marcadores_img, app>>

\* lines 31-37
NormalizeGdf ==
  /\ pc = "norm_gdf"
  /\ gdf' = [i \in 1..Len(gdf) |->
               [gdf[i] EXCEPT !.DPTO_CNMBR = NormalizeDptoCnmbr(@)]]
  /\ pc' = "merge"
  /\ UNCHANGED <<csvFile, shpFile, cacheFile, io, namespace, error, df,
                 merged_programas, threshold, figs, mapa_marcadores_img, app>>

MergeStep_cached ==
  /\ pc = "merge"
  /\ IF cacheFile.exists
     THEN /\ merged_programas' = cacheFile.data
          /\ io' = Append(io, "read cache")
     ELSE /\ merged_programas' = Merge(gdf, df)
          /\ UNCHANGED io
  /\ namespace' = namespace \cup {"merged_programas"}
  /\ pc' = "fig1"
  /\ UNCHANGED <<csvFile, shpFile, cacheFile, error, df, gdf, threshold,
                 figs, mapa_marcadores_img, app>>

\* lines 40-45
MergeStep ==
  /\ pc = "merge"
  /\ merged_programas' = Merge(gdf, df)
  /\ namespace' = namespace \cup {"merged_programas"}
  /\ pc' = "fig1"
  /\ UNCHANGED <<csvFile, shpFile, cacheFile, io, error, df, gdf, threshold,
                 figs, mapa_marcadores_img, app>>

\* lines 71-81
Fig1 ==
  /\ pc = "fig1"
  /\ figs' = [figs EXCEPT !.fig1 = Choropleth(merged_programas, "CANTIDAD_PROGRAMAS")]
  /\ pc' = "log"
  /\ UNCHANGED <<csvFile, shpFile, cacheFile, io, namespace, error, df, gdf,
                 merged_programas, threshold, mapa_marcadores_img, app>>

LogCantidad_fillna ==
  /\ pc = "log"
  /\ merged_programas' =
       WithColumn(WithColumn(merged_programas, "CANTIDAD_PROGRAMAS",
                    [i \in 1..Len(merged_programas.rows) |->
                       IF notnull(merged_programas.rows[i].CANTIDAD_PROGRAMAS)
                       THEN merged_programas.rows[i].CANTIDAD_PROGRAMAS ELSE <<0>>]),
                  "LOG_CANTIDAD",
                  [i \in 1..Len(merged_programas.rows) |->
                     LogLambda(merged_programas.rows[i].CANTIDAD_PROGRAMAS)])
  /\ pc' = "fig2"
  /\ UNCHANGED <<csvFile, shpFile, cacheFile, io, namespace, error, df, gdf,
                 threshold, figs, mapa_marcadores_img, app>>

\* lines 84-86
LogCantidad ==
  /\ pc = "log"
  /\ merged_programas' =
       WithColumn(merged_programas, "LOG_CANTIDAD",
                  [i \in 1..Len(merged_programas.rows) |->
                     LogLambda(merged_programas.rows[i].CANTIDAD_PROGRAMAS)])
  /\ pc' = "fig2"
  /\ UNCHANGED <<csvFile, shpFile, cacheFile, io, namespace, error, df, gdf,
                 threshold, figs, mapa_marcadores_img, app>>

\* lines 87-97
Fig2 ==
  /\ pc = "fig2"
  /\ figs' = [figs EXCEPT !.fig2 = Choropleth(merged_programas, "LOG_CANTIDAD")]
  /\ pc' = "marcadores"
  /\ UNCHANGED <<csvFile, shpFile, cacheFile, io, namespace, error, df, gdf,
                 merged_programas, threshold, mapa_marcadores_img, app>>

\* lines 103-134: one marker per record, of size cantidad / max * max_size,
\* cantidad being 0 for a null count
GenerarMapaMarcadores ==
  /\ pc = "marcadores"
  /\ mapa_marcadores_img' =
       [i \in 1..Len(merged_programas.rows) |->
          LET c == merged_programas.rows[i].CANTIDAD_PROGRAMAS
          IN  [label |-> merged_programas.rows[i].DPTO_CNMBR,
               num |-> (IF notnull(c) THEN c[1] ELSE 0) * 2000,
               den |-> SeqMax(Column(merged_programas, "CANTIDAD_PROGRAMAS"))]]
  /\ namespace' = namespace \cup {"mapa_marcadores_img"}
  /\ pc' = "fig3"
  /\ UNCHANGED <<csvFile, shpFile, cacheFile, io, error, df, gdf,
                 merged_programas, threshold, figs, app>>

\* lines 137-147
Fig3 ==
  /\ pc = "fig3"
  /\ figs' = [figs EXCEPT !.fig3 = Choropleth(merged_programas, "PROMEDIO_MATRICULADOS")]
  /\ pc' = "top25"
  /\ UNCHANGED <<csvFile, shpFile, cacheFile, io, namespace, error, df, gdf,
                 merged_programas, threshold, mapa_marcadores_img, app>>

\* lines 150-151
Top25 ==
  /\ pc = "top25"
  /\ threshold' = Quantile75(Column(merged_programas, "CANTIDAD_PROGRAMAS"))
  /\ merged_programas' =
       WithColumn(merged_programas, "TOP25",
                  [i \in 1..Len(merged_programas.rows) |->
                     SeriesGt(merged_programas.rows[i].CANTIDAD_PROGRAMAS, threshold')])
  /\ namespace' = namespace \cup {"threshold"}
  /\ pc' = "fig4"
  /\ UNCHANGED <<csvFile, shpFile, cacheFile, io, error, df, gdf,
                 figs, mapa_marcadores_img, app>>

\* lines 153-163
Fig4 ==
  /\ pc = "fig4"
  /\ figs' = [figs EXCEPT !.fig4 = Choropleth(merged_programas, "TOP25")]
  /\ pc' = "app"
  /\ UNCHANGED <<csvFile, shpFile, cacheFile, io, namespace, error, df, gdf,
                 merged_programas, threshold, mapa_marcadores_img, app>>

\* lines 169-262: the Dash application and its five tabs
BuildApp ==
  /\ pc = "app"
  /\ app' = <<figs.fig1, figs.fig2, mapa_marcadores_img, figs.fig3, figs.fig4>>
  /\ namespace' = namespace \cup {"app"}
  /\ pc' = "done"
  /\ UNCHANGED <<csvFile, shpFile, cacheFile, io, error, df, gdf,
                 merged_programas, threshold, figs, mapa_marcadores_img>>

Next ==
  \/ ReadCsv
  \/ ReadShp
  \/ NormalizeDf
  \/ NormalizeGdf
  \/ MergeStep
  \/ Fig1
  \/ LogCantidad
  \/ Fig2
  \/ GenerarMapaMarcadores
  \/ Fig3
  \/ Top25
  \/ Fig4
  \/ BuildApp

(* ------------------------------- inputs -------------------------------- *)
RECURSIVE SeqsUpTo(_, _)
\* the sequences of at most n elements of S
SeqsUpTo(S, n) ==
  IF n = 0 THEN {<<>>}
  ELSE LET shorter == SeqsUpTo(S, n - 1)
       IN  shorter \cup {Append(s, x) : s \in shorter, x \in S}

MissingFile == [exists |-> FALSE, rows |-> <<>>]

StatsRow(label, count) ==
  [DEPARTAMENTO_DE_OFERTA_DEL_PROGRAMA |-> label,
   CANTIDAD_PROGRAMAS |-> count,
   PROMEDIO_MATRICULADOS |-> IF notnull(count) THEN <<count[1] + 7>> ELSE NaN]

\* record i of a geometry file carries polygon i
GeoRows(labels) ==
  [i \in 1..Len(labels) |-> [DPTO_CNMBR |-> labels[i], geometry |-> <<i>>]]

\* a cache left by an earlier run over other sources
StaleCache ==
  [exists |-> TRUE,
   data |-> Merge(GeoRows(<<<<"A">>>>), <<StatsRow(<<"A">>, <<99>>)>>)]

CacheFiles == {[exists |-> FALSE, data |-> Merge(<<>>, <<>>)], StaleCache}

Start ==
  /\ pc = "read_csv"
  /\ io = <<>>
  /\ namespace = {}
  /\ error = "none"
  /\ df = <<>>
  /\ gdf = <<>>
  /\ merged_programas = [columns |-> {}, rows |-> <<>>]
  /\ threshold = NaN
  /\ figs = NoFigs
  /\ mapa_marcadores_img = <<>>
  /\ app = <<>>

\* the general run: few records, labels that do and do not match
StatsLabels == {NaN, <<<<"a">>>>, <<<<" ", "A_acute">>>>, <<<<"a", "a">>>>}
GeoLabels == {<<<<"a_acute">>>>, <<<<"A", " ">>>>, <<<<"A", "a">>>>}
StatsCounts == {<<3>>, <<5>>}

Init ==
  /\ csvFile \in {MissingFile} \cup
       {[exists |-> TRUE, rows |-> r] :
          r \in SeqsUpTo({StatsRow(l, c) : l \in StatsLabels, c \in StatsCounts},
                         MaxStats)}
  /\ shpFile \in {MissingFile} \cup
       {[exists |-> TRUE, rows |-> GeoRows(l)] : l \in SeqsUpTo(GeoLabels, MaxGeo)}
  /\ cacheFile \in CacheFiles
  /\ Start

Spec == Init /\ [][Next]_vars

\* the normalizer: one statistics row and one geometry record, every label
Labels == SeqsUpTo(Alphabet, MaxLen)

InitNorm ==
  /\ csvFile \in {MissingFile} \cup
       {[exists |-> TRUE, rows |-> <<StatsRow(<<l>>, <<5>>)>>] : l \in Labels}
  /\ shpFile \in {MissingFile} \cup
       {[exists |-> TRUE, rows |-> GeoRows(<<<<l>>>>)] : l \in Labels}
  /\ cacheFile = StaleCache
  /\ Start

SpecNorm == InitNorm /\ [][Next]_vars

\* the derived columns: every department matched, every combination of counts
CountValues == {NaN, <<-1>>, <<0>>, <<10>>, <<20>>, <<30>>, <<1000>>}

RECURSIVE DeptLabel(_)
DeptLabel(i) == IF i = 1 THEN <<"a">> ELSE <<"ord_a">> \o DeptLabel(i - 1)

InitQuant ==
  /\ \E counts \in SeqsUpTo(CountValues, MaxCounts) :
       /\ csvFile \in {MissingFile,
             [exists |-> TRUE,
              rows |-> [i \in 1..Len(counts) |-> StatsRow(<<DeptLabel(i)>>, counts[i])]]}
       /\ shpFile \in {MissingFile,
             [exists |-> TRUE,
              rows |-> GeoRows([i \in 1..Len(counts) |-> <<DeptLabel(i)>>])]}
  /\ cacheFile \in CacheFiles
  /\ Start

SpecQuant == InitQuant /\ [][Next]_vars

(* ---------------------- vocabulary of the properties ------------------- *)
Loaded == "merged_programas" \in namespace

Normalized == pc \notin {"read_csv", "read_shp", "norm_df", "norm_gdf", "aborted"}

Count(s, x) == Cardinality({i \in 1..Len(s) : s[i] = x})

BaseRows(data) ==
  [i \in 1..Len(data.rows) |-> [c \in BaseColumns |-> data.rows[i][c]]]

Counts == Column(merged_programas, "CANTIDAD_PROGRAMAS")

\* the statistics rows whose key is the key of geometry record j
MatchCount(j) ==
  Cardinality({i \in 1..Len(df) :
                 df[i].DEPARTAMENTO_DE_OFERTA_DEL_PROGRAMA = gdf[j].DPTO_CNMBR})

\* the merged records that carry the polygon of geometry record j
Occurrences(j) ==
  {i \in 1..Len(merged_programas.rows) :
     merged_programas.rows[i].geometry = gdf[j].geometry}

GeoKeys == {gdf[j].DPTO_CNMBR : j \in 1..Len(gdf)}

(* -------------------------------- C1 ----------------------------------- *)
\* C1 (as stated): the merged dataset contains each geometry record exactly
\* once, so it has as many records as the geometry source, whatever the
\* statistics rows are.
C1_Original ==
  Loaded =>
    /\ Len(merged_programas.rows) = Len(gdf)
    /\ \A j \in 1..Len(gdf) : Cardinality(Occurrences(j)) = 1

\* C1 (amended): a geometry record appears once per statistics row whose
\* normalized name equals its key, and once with null program_count and
\* average_enrollment when there is none; the merged dataset has the geometry
\* source's record count when no record matches several statistics rows.
C1_LeftJoin ==
  Loaded =>
    /\ \A j \in 1..Len(gdf) :
         /\ Cardinality(Occurrences(j)) = IF MatchCount(j) = 0 THEN 1 ELSE MatchCount(j)
         /\ MatchCount(j) = 0 =>
              \A i \in Occurrences(j) :
                 /\ merged_programas.rows[i].CANTIDAD_PROGRAMAS = NaN
                 /\ merged_programas.rows[i].PROMEDIO_MATRICULADOS = NaN
    /\ (\A j \in 1..Len(gdf) : MatchCount(j) <= 1) =>
         Len(merged_programas.rows) = Len(gdf)

C1_Witness ==
  /\ Loaded
  /\ \E j \in 1..Len(gdf) : MatchCount(j) = 2
  /\ \E j \in 1..Len(gdf) : MatchCount(j) = 0

C3_Original ==
  /\ [](Built("fig1") => {"LOG_CANTIDAD", "TOP25"} \subseteq merged_programas.columns)
  /\ [][Built("fig1") => merged_programas' = merged_programas]_vars

\* C3 (amended): log-count is added after the first chart is built and the
\* top-quartile flag after the third chart and the marker map, each before the
\* chart coloured by it; from the first chart-construction read on a step only
\* adds one of these two columns: the records and the values of the columns
\* that exist stay as they are.
C3_OnlyAdds ==
  /\ [](/\ Built("fig2") => figs.fig2.z = Column(merged_programas, "LOG_CANTIDAD")
        /\ Built("fig4") => figs.fig4.z = Column(merged_programas, "TOP25")
        /\ Built("fig1") /\ ~Built("fig2") /\ pc = "log" =>
             merged_programas.columns = BaseColumns
        /\ Built("fig3") /\ pc = "top25" =>
             merged_programas.columns = BaseColumns \cup {"LOG_CANTIDAD"})
  /\ [][Built("fig1") =>
          /\ Len(merged_programas'.rows) = Len(merged_programas.rows)
          /\ merged_programas.columns \subseteq merged_programas'.columns
          /\ merged_programas'.columns \subseteq
               merged_programas.columns \cup {"LOG_CANTIDAD", "TOP25"}
          /\ \A i \in 1..Len(merged_programas.rows) :
               \A c \in merged_programas.columns :
                  merged_programas'.rows[i][c] = merged_programas.rows[i][c]]_vars

C3_Witness ==
  /\ pc = "done"
  /\ Len(merged_programas.rows) > 1
  /\ merged_programas.columns = BaseColumns \cup {"LOG_CANTIDAD", "TOP25"}
  /\ \E i \in 1..Len(Counts) : notnull(Counts[i])

(* -------------------------------- C4 ----------------------------------- *)
\* the k-th smallest (k from 0) of the non-null counts, by rank
Valued == {i \in 1..Len(Counts) : notnull(Counts[i])}

OrderStatistic(k) ==
  CHOOSE x \in {Counts[i][1] : i \in Valued} :
    /\ Cardinality({i \in Valued : Counts[i][1] < x}) <= k
    /\ k < Cardinality({i \in Valued : Counts[i][1] <= x})

\* four times the 75th percentile of the non-null counts
Percentile75x4 ==
  LET n == Cardinality(Valued)
      lo == (3 * (n - 1)) \div 4
      fr == (3 * (n - 1)) % 4
  IN  IF fr = 0 THEN 4 * OrderStatistic(lo)
      ELSE (4 - fr) * OrderStatistic(lo) + fr * OrderStatistic(lo + 1)

\* C4: the top-quartile flag of a record is true exactly when its
\* program_count is non-null and strictly greater than the 75th percentile of
\* the program_count values, so it is false for a null count and for a count
\* equal to the threshold.
C4_Top25 ==
  "TOP25" \in merged_programas.columns =>
    \A i \in 1..Len(Counts) :
       merged_programas.rows[i].TOP25 =
         (i \in Valued /\ 4 * Counts[i][1] > Percentile75x4)

C4_Witness ==
  /\ "TOP25" \in merged_programas.columns
  /\ \E i \in 1..Len(Counts) : Counts[i] = NaN
  /\ \E i \in Valued : 4 * Counts[i][1] = Percentile75x4
  /\ \E i \in Valued : 4 * Counts[i][1] < Percentile75x4

(* -------------------------------- C5 ----------------------------------- *)
Example == Len(Counts) = 4 /\ {Counts[i] : i \in 1..Len(Counts)} =
                                 {<<10>>, <<20>>, <<30>>, <<1000>>}

OnlyThousandFlagged ==
  \A i \in 1..Len(Counts) : merged_programas.rows[i].TOP25 = (Counts[i] = <<1000>>)

\* C5 (as stated): for the counts [10, 20, 30, 1000] the threshold is 77.5 and
\* only the record with count 1000 is flagged.
C5_Original ==
  "TOP25" \in merged_programas.columns /\ Example =>
    /\ notnull(threshold)
    /\ 2 * threshold[1].num = 155 * threshold[1].den
    /\ OnlyThousandFlagged

\* C5 (amended): for the counts [10, 20, 30, 1000] the threshold is 272.5
\* (30 + 0.25 * (1000 - 30), position 0.75 * 3 = 2.25 of the sorted counts) and
\* only the record with count 1000 is flagged.
C5_Example ==
  "TOP25" \in merged_programas.columns /\ Example =>
    /\ notnull(threshold)
    /\ 2 * threshold[1].num = 545 * threshold[1].den
    /\ OnlyThousandFlagged

C5_Witness == "TOP25" \in merged_programas.columns /\ Example /\ pc = "done"

(* -------------------------------- C6 ----------------------------------- *)
\* C6: log-count is null for a null, zero or negative program_count and the
\* natural logarithm of program_count otherwise, and computing it raises no
\* error.
C6_LogCantidad ==
  "LOG_CANTIDAD" \in merged_programas.columns =>
    /\ error = "none"
    /\ \A i \in 1..Len(Counts) :
         merged_programas.rows[i].LOG_CANTIDAD =
           IF Counts[i] = NaN THEN NaN
           ELSE IF Counts[i][1] <= 0 THEN NaN
           ELSE <<[kind |-> "ln", arg |-> Counts[i][1]]>>

C6_Witness ==
  /\ "LOG_CANTIDAD" \in merged_programas.columns
  /\ \E i \in 1..Len(Counts) : Counts[i] = NaN
  /\ \E i \in 1..Len(Counts) : Counts[i] = <<0>>
  /\ \E i \in 1..Len(Counts) : Counts[i] = <<-1>>
  /\ \E i \in 1..Len(Counts) : Counts[i] = <<1000>>

(* -------------------------------- C7 ----------------------------------- *)
\* the letter a character is a variant of, case and accent set aside
Letter(c) == IF c \in {"a", "A", "a_acute", "A_acute"} THEN "a" ELSE c

\* a text without its leading and trailing blanks
Core(s) ==
  LET inked == {i \in 1..Len(s) : s[i] # " "}
  IN  IF inked = {} THEN <<>>
      ELSE SubSeq(s, CHOOSE i \in inked : \A k \in inked : i <= k,
                     CHOOSE i \in inked : \A k \in inked : k <= i)

\* two labels that differ only by case, surrounding whitespace or accents
Equivalent(s, t) ==
  /\ Len(Core(s)) = Len(Core(t))
  /\ \A k \in 1..Len(Core(s)) : Letter(Core(s)[k]) = Letter(Core(t)[k])

\* C7: labels that differ only by letter case, leading/trailing whitespace or
\* accent marks get the same key, in the statistics source and in the geometry
\* source alike, so such a statistics row and geometry record are joined.
C7_SameKey ==
  Normalized =>
    \A i \in 1..Len(df) : \A j \in 1..Len(gdf) :
       Equivalent(csvFile.rows[i].DEPARTAMENTO_DE_OFERTA_DEL_PROGRAMA[1],
                  shpFile.rows[j].DPTO_CNMBR[1]) =>
         /\ df[i].DEPARTAMENTO_DE_OFERTA_DEL_PROGRAMA = gdf[j].DPTO_CNMBR
         /\ Loaded => \E r \in Occurrences(j) :
                         merged_programas.rows[r].CANTIDAD_PROGRAMAS =
                           df[i].CANTIDAD_PROGRAMAS

C7_Witness ==
  /\ pc = "fig1"
  /\ Len(df) = 1 /\ Len(gdf) = 1
  /\ LET s == csvFile.rows[1].DEPARTAMENTO_DE_OFERTA_DEL_PROGRAMA[1]
         t == shpFile.rows[1].DPTO_CNMBR[1]
     IN  /\ Equivalent(s, t)
         /\ Len(s) # Len(t)
         /\ Core(s) # Core(t)
         /\ Core(s) # <<>>

(* -------------------------------- C8 ----------------------------------- *)
Keys ==
  {df[i].DEPARTAMENTO_DE_OFERTA_DEL_PROGRAMA : i \in 1..Len(df)} \cup GeoKeys

\* C8 (as stated): normalizing a key again returns the key, for every label.
C8_Original ==
  Normalized =>
    \A k \in Keys : NormalizeDepartamento(<<k>>) = k /\ NormalizeDptoCnmbr(<<k>>) = k

\* a key without lowercase letters and without leading or trailing blanks
Settled(k) ==
  /\ \A i \in 1..Len(k) : k[i] \notin {"a", "e", "i", "n"}
  /\ k = <<>> \/ (k[1] # " " /\ k[Len(k)] # " ")

\* C8 (amended): normalizing a key again returns the key whenever the key has
\* no lowercase letter and no leading or trailing whitespace, which is so for
\* every label of ASCII characters and accented Latin letters; a character
\* that unidecode turns into lowercase text or into text with a surrounding
\* blank gives a key that a second normalization changes.
C8_Idempotent ==
  Normalized =>
    /\ \A k \in Keys :
         Settled(k) => NormalizeDepartamento(<<k>>) = k /\ NormalizeDptoCnmbr(<<k>>) = k
    /\ \A i \in 1..Len(df) :
         (\A n \in 1..Len(csvFile.rows[i].DEPARTAMENTO_DE_OFERTA_DEL_PROGRAMA[1]) :
             csvFile.rows[i].DEPARTAMENTO_DE_OFERTA_DEL_PROGRAMA[1][n]
               \in {"a", "A", "a_acute", "A_acute", " "})
           => Settled(df[i].DEPARTAMENTO_DE_OFERTA_DEL_PROGRAMA)

C8_Witness ==
  /\ pc = "fig1"
  /\ Len(df) = 1
  /\ Settled(df[1].DEPARTAMENTO_DE_OFERTA_DEL_PROGRAMA)
  /\ df[1].DEPARTAMENTO_DE_OFERTA_DEL_PROGRAMA #
       csvFile.rows[1].DEPARTAMENTO_DE_OFERTA_DEL_PROGRAMA[1]
  /\ Len(df[1].DEPARTAMENTO_DE_OFERTA_DEL_PROGRAMA) > 0

(* -------------------------------- C9 ----------------------------------- *)
ReadFailed ==
  \/ Count(io, "read csv") > 0 /\ ~csvFile.exists
  \/ Count(io, "read shp") > 0 /\ ~shpFile.exists

\* C9: once the read of an input file has failed the run is aborted with no
\* merged dataset, chart, marker map or dashboard, the failed read is not
\* repeated and no other file is read in its place.
C9_Fatal ==
  ReadFailed =>
    /\ pc = "aborted"
    /\ error # "none"
    /\ namespace \cap {"merged_programas", "mapa_marcadores_img", "threshold", "app"} = {}
    /\ figs = NoFigs /\ app = <<>> /\ mapa_marcadores_img = <<>>
    /\ Count(io, "read csv") <= 1 /\ Count(io, "read shp") <= 1
    /\ Count(io, "read cache") = 0
    /\ ~csvFile.exists => io = <<"read csv">> /\ "df" \notin namespace
    /\ csvFile.exists => io = <<"read csv", "read shp">> /\ "gdf" \notin namespace

C9_Witness ==
  /\ pc = "aborted"
  /\ csvFile.exists /\ Len(df) > 0
  /\ ~shpFile.exists

(* -------------------------------- C10 ---------------------------------- *)
Matched(r) == r.DEPARTAMENTO_DE_OFERTA_DEL_PROGRAMA \in GeoKeys

\* C10: a statistics row whose key is the key of no geometry record is absent
\* from the merged dataset, raises no error, and leaves the merged dataset as
\* it is without that row.
C10_Dropped ==
  Loaded =>
    /\ error = "none"
    /\ \A i \in 1..Len(df) :
         ~Matched(df[i]) =>
           \A r \in 1..Len(merged_programas.rows) :
              merged_programas.rows[r].DEPARTAMENTO_DE_OFERTA_DEL_PROGRAMA #
                <<df[i].DEPARTAMENTO_DE_OFERTA_DEL_PROGRAMA>>
    /\ \A r \in 1..Len(merged_programas.rows) :
         \E j \in 1..Len(gdf) :
            /\ merged_programas.rows[r].geometry = gdf[j].geometry
            /\ merged_programas.rows[r].DPTO_CNMBR = gdf[j].DPTO_CNMBR
    /\ BaseRows(merged_programas) = BaseRows(Merge(gdf, SelectSeq(df, Matched)))

C10_Witness ==
  /\ Loaded
  /\ \E i \in 1..Len(df) : ~Matched(df[i])
  /\ \E i \in 1..Len(df) : Matched(df[i])

====
